---- MODULE Spec2Model ----
(***************************************************************************)
(* Model of src/server/actions/telegram.ts: the Telegram link actions      *)
(* checkUserTelegramSetup, verifyTelegramSetupAction,                      *)
(* sendTelegramNotification and checkTelegramUsername, with their three    *)
(* collaborators (verifyUser, the user table, the Telegram Bot HTTP API).  *)
(*                                                                         *)
(* A string handle is a sequence of one-character strings, so that         *)
(* replaceAll('@', '') is computed character by character.  Every await    *)
(* of the source is one action: the awaited call completes (or fails) and  *)
(* the code runs on to the next await or to its return.                    *)
(***************************************************************************)
EXTENDS Naturals, Sequences, FiniteSets, TLC

\* ---------------------------------------------------------------- bounds
MaxLen == 2          \* longest handle a caller supplies
MaxUpdates == 2      \* longest update list the gateway returns

Chars == {"@", "a"}
Procs == {"p1", "p2"}            \* request slots
Users == {"u1", "u2"}            \* user ids the AuthProvider can yield
Texts == {"hello", "bye"}        \* message texts
ChatIds == <<"c1", "c2", "c3", "c4">>

\* ----------------------------------------------------- values of the code
Undef == "undefined"             \* an absent string / id (undefined, null)
NoHandle == <<"undefined">>      \* an absent handle
NonError == "<not an Error>"     \* a thrown value that is not an Error

MISSING_USERNAME_ERROR == "No saved Telegram username found"
BOT_NOT_STARTED_ERROR == "Bot not started yet"
UNAUTHORIZED == "UNAUTHORIZED"
BOT_INFO_ERROR == "Failed to retrieve bot info"
BOT_UPDATES_ERROR == "Failed to retrieve bot updates"
SEND_MESSAGE_ERROR == "Failed to send Telegram message"
TOKEN_NOT_SET_ERROR == "Telegram bot token not set"
VERIFY_DEFAULT_ERROR == "Verification failed"
NOTIFY_DEFAULT_ERROR == "Failed to send notification"
CONFIGURED_BOT == "configured_bot"        \* process.env.TELEGRAM_BOT_USERNAME
REMOTE_BOT == "remote_bot"                \* data.result.username of getMe

SeqsUpTo(S, n) == UNION {[1..k -> S] : k \in 0..n}
Handles == SeqsUpTo(Chars, MaxLen)
\* usernames Telegram hands out: non-empty, no "@"
TelegramNames == {h \in Handles : h # <<>> /\ \A i \in 1..Len(h) : h[i] # "@"}
\* the accounts that may have written to the bot
GatewayNames == {<<"a">>}
Overrides == Handles \cup {NoHandle}
Ops == {"checkSetup", "verify", "notify", "lookup"}
\* what the interleaved requests are drawn from
ConcOps == {"checkSetup", "notify", "lookup"}
ConcOverrides == {NoHandle, <<"@">>, <<"@", "a">>}
ConcTexts == {"hello"}

\* JavaScript falsiness of an optional string
Falsy(h) == h = NoHandle \/ h = <<>>

\* the handle passed on as it came (sanitizing forgotten)
replaceNothing(s, c) == s

\* String.prototype.replaceAll(c, '')
RECURSIVE replaceAll(_, _)
replaceAll(s, c) ==
  IF s = <<>> THEN <<>>
  ELSE IF Head(s) = c THEN replaceAll(Tail(s), c)
       ELSE <<Head(s)>> \o replaceAll(Tail(s), c)

\* data.result.find(msg => msg?.message?.from?.username === username),
\* then chat ? chat.message.chat.id : null
getChatIdByUsername(result, username) ==
  LET hits == {i \in 1..Len(result) : result[i].username = username}
  IN  IF hits = {} THEN Undef
      ELSE result[CHOOSE i \in hits : \A j \in hits : i <= j].chat

\* ---------------------------------------------------------- result values
Value(success, error, userId, username, chatId, botId) ==
  [kind |-> "value", success |-> success, error |-> error, userId |-> userId,
   username |-> username, chatId |-> chatId, botId |-> botId, exc |-> Undef]
Thrown(e) ==
  [kind |-> "thrown", success |-> FALSE, error |-> Undef, userId |-> Undef,
   username |-> NoHandle, chatId |-> Undef, botId |-> Undef, exc |-> e]
NoRes ==
  [kind |-> "none", success |-> FALSE, error |-> Undef, userId |-> Undef,
   username |-> NoHandle, chatId |-> Undef, botId |-> Undef, exc |-> Undef]

\* err instanceof Error ? err.message : dflt
ErrMsg(e, dflt) == IF e = NonError THEN dflt ELSE e

VARIABLES
  TELEGRAM_BOT_TOKEN,     \* TRUE iff the credential is configured
  TELEGRAM_BOT_USERNAME,  \* configured bot username, or Undef
  updates,                \* the update list getUpdates returns
  db,                     \* user id -> stored Telegram handle
  db0,                    \* the stored handles at start (history)
  req                     \* request slot -> the invocation running in it

vars == <<TELEGRAM_BOT_TOKEN, TELEGRAM_BOT_USERNAME, updates, db, db0, req>>

IdleReq ==
  [pc |-> "idle", op |-> Undef, session |-> Undef, username |-> NoHandle,
   text |-> Undef, userId |-> Undef, botId |-> Undef, dbUsername |-> NoHandle,
   chatId |-> Undef, setup |-> NoRes, res |-> NoRes,
   calls |-> <<>>, sent |-> <<>>, wrote |-> <<>>]

\* update lists: an update without message.from.username has NoHandle
UpdateLists ==
  {[i \in 1..Len(names) |-> [username |-> names[i], chat |-> ChatIds[i]]] :
     names \in SeqsUpTo(GatewayNames \cup {NoHandle}, MaxUpdates)}

\* what the user table holds for a user at start
StoredValues == {NoHandle, <<"a">>, <<"a", "a">>}

Init ==
  /\ TELEGRAM_BOT_TOKEN \in BOOLEAN
  /\ TELEGRAM_BOT_USERNAME \in {Undef, CONFIGURED_BOT}
  /\ updates \in UpdateLists
  /\ db \in [Users -> StoredValues]
  /\ db0 = db
  /\ req = [p \in Procs |-> IdleReq]

\* ------------------------------------------------ the code's conditions
\* dbGetUserTelegramId({ userId }): the stored handle, absent for no row
dbGetUserTelegramId(table, userId) ==
  IF userId \in DOMAIN table THEN table[userId] ELSE NoHandle

\* the early return for a missing session left out
UnauthenticatedNever(userId) == FALSE

\* lines 73 and 159: !userId
Unauthenticated(userId) == userId = Undef

\* the credential check left out
TokenMissingNever == FALSE

\* line 123: !TELEGRAM_BOT_TOKEN
TokenMissing == ~TELEGRAM_BOT_TOKEN

\* the check for a missing conversation left out
NotStartedNever(chatId) == FALSE

\* line 85: !chatId
NotStarted(chatId) == chatId = Undef

\* the check of setup.success left out
SetupFailedNever(s) == FALSE

\* lines 102 and 132: !setup.success
SetupFailed(s) == ~s.success

\* line 59: { chat_id: chatId, text }
MessageBody(chatId, text) == [chat_id |-> chatId, text |-> text]

\* ------------------------------------------------------ the call boundary
Log(r, fn) == [r EXCEPT !.calls = Append(@, fn)]

\* verifyTelegramSetupAction, lines 102-109: what it makes of setup
VerifyResult(s) ==
  IF SetupFailed(s)
    THEN Value(FALSE, s.error, Undef, NoHandle, Undef, s.botId)
    ELSE Value(TRUE, Undef, Undef, NoHandle, Undef, Undef)

\* the forwarded failure without setup.botId
NotifyFailureNoBot(s) == Value(FALSE, s.error, Undef, NoHandle, Undef, Undef)

\* sendTelegramNotification, lines 132-142: the failure it forwards
NotifyFailure(s) == Value(FALSE, s.error, Undef, NoHandle, Undef, s.botId)

\* the catch blocks, lines 110-117 and 145-153
Caught(e, dflt) == Value(FALSE, ErrMsg(e, dflt), Undef, NoHandle, Undef, Undef)

\* checkUserTelegramSetup returned s to the operation running in r
SetupReturned(r, s) ==
  CASE r.op = "checkSetup" ->
         [r EXCEPT !.pc = "done", !.setup = s, !.res = s]
    [] r.op = "verify" ->
         [r EXCEPT !.pc = "done", !.setup = s, !.res = VerifyResult(s)]
    [] r.op = "notify" ->
         IF SetupFailed(s)
           THEN [r EXCEPT !.pc = "done", !.setup = s, !.res = NotifyFailure(s)]
           ELSE [r EXCEPT !.pc = "sendMessage", !.setup = s]

\* an awaited call inside checkUserTelegramSetup threw e
SetupThrew(r, e) ==
  CASE r.op = "checkSetup" ->
         [r EXCEPT !.pc = "done", !.setup = Thrown(e), !.res = Thrown(e)]
    [] r.op = "verify" ->
         [r EXCEPT !.pc = "done", !.setup = Thrown(e),
                   !.res = Caught(e, VERIFY_DEFAULT_ERROR)]
    [] r.op = "notify" ->
         [r EXCEPT !.pc = "done", !.setup = Thrown(e),
                   !.res = Caught(e, NOTIFY_DEFAULT_ERROR)]

\* checkTelegramUsername has no try/catch: e leaves the operation
LookupThrew(r, e) == [r EXCEPT !.pc = "done", !.res = Thrown(e)]

\* username ?? dbUsername: an empty override is kept
finalUsernameNullish(r) == IF r.username # NoHandle THEN r.username ELSE r.dbUsername

\* line 77: username || dbUsername
finalUsername(r) == IF ~Falsy(r.username) THEN r.username ELSE r.dbUsername

\* line 83
sanitizedUsername(r) == replaceAll(finalUsername(r), "@")

\* the table updated on every success
NeedsUpdateAlways(r) == TRUE

\* line 90: !dbUsername || dbUsername !== sanitizedUsername
NeedsUpdate(r) == Falsy(r.dbUsername) \/ r.dbUsername # sanitizedUsername(r)

\* the handle stored as it was supplied
UpdateArgsRaw(r) == [userId |-> r.userId, telegramId |-> finalUsername(r)]

\* line 91: { userId, telegramId: sanitizedUsername }
UpdateArgs(r) == [userId |-> r.userId, telegramId |-> sanitizedUsername(r)]

\* line 94
SetupSuccess(r) ==
  Value(TRUE, Undef, r.userId, sanitizedUsername(r), r.chatId, r.botId)

\* what a request to the Bot API can answer: without a token the URL is
\* .../botundefined/..., which the API never answers with a 2xx
FetchOutcomes == {"non2xx"} \cup (IF TELEGRAM_BOT_TOKEN THEN {"ok"} ELSE {})

\* what verifyUser or a query of the user table can throw
CollaboratorErrors == {"collaborator failed", NonError}

\* ------------------------------------------------------------- operations
InFlight == Cardinality({q \in Procs : req[q].pc # "idle"})

\* A caller invokes op; the code runs to its first await.  Lines 68-71,
\* 99-101, 122-131, 156-157.
Invoke(p, op, session, username, text, limit) ==
  /\ req[p].pc = "idle"
  /\ InFlight < limit
  /\ LET r == [IdleReq EXCEPT !.op = op, !.session = session,
                              !.username = username, !.text = text]
     IN  req' = [req EXCEPT ![p] =
           IF op = "notify" /\ TokenMissing
             THEN [r EXCEPT !.pc = "done",
                     !.res = Value(FALSE, TOKEN_NOT_SET_ERROR, Undef, NoHandle,
                                   Undef, Undef)]
             ELSE [r EXCEPT !.pc = "verifyUser"]]
  /\ UNCHANGED <<TELEGRAM_BOT_TOKEN, TELEGRAM_BOT_USERNAME, updates, db, db0>>

InvokeAny(p, ops, sessions, overrides, texts, limit) ==
  \/ \E op \in ops \cap {"checkSetup", "verify"}, session \in sessions,
        username \in overrides :
       Invoke(p, op, session, username, Undef, limit)
  \/ \E session \in sessions, username \in overrides, text \in texts :
       /\ "notify" \in ops
       /\ Invoke(p, "notify", session, username, text, limit)
  \/ \E session \in sessions :
       /\ "lookup" \in ops
       /\ Invoke(p, "lookup", session, NoHandle, Undef, limit)

\* await verifyUser() completes: lines 71-75 and 157-161
VerifyUser(p) ==
  /\ req[p].pc = "verifyUser"
  /\ LET r == Log(req[p], "verifyUser")
         u == [r EXCEPT !.userId = r.session]
     IN  \/ \E e \in CollaboratorErrors :
              req' = [req EXCEPT ![p] =
                IF r.op = "lookup" THEN LookupThrew(r, e) ELSE SetupThrew(r, e)]
         \/ req' = [req EXCEPT ![p] =
              IF Unauthenticated(u.userId)
                THEN IF u.op = "lookup"
                       THEN [u EXCEPT !.pc = "done",
                               !.res = Value(FALSE, UNAUTHORIZED, Undef,
                                             NoHandle, Undef, Undef)]
                       ELSE SetupReturned(u, Value(FALSE, UNAUTHORIZED, Undef,
                                                   NoHandle, Undef, Undef))
                ELSE IF u.op = "lookup" THEN [u EXCEPT !.pc = "dbGet"]
                ELSE IF TELEGRAM_BOT_USERNAME # Undef
                       THEN [u EXCEPT !.botId = TELEGRAM_BOT_USERNAME,
                                      !.pc = "dbGet"]
                       ELSE [u EXCEPT !.pc = "getMe"]]
  /\ UNCHANGED <<TELEGRAM_BOT_TOKEN, TELEGRAM_BOT_USERNAME, updates, db, db0>>

\* await getBotUsername() completes: lines 36-41, 75
GetMe(p) ==
  /\ req[p].pc = "getMe"
  /\ \E outcome \in FetchOutcomes :
       LET r == Log(req[p], "getMe")
       IN  req' = [req EXCEPT ![p] =
             IF outcome = "ok"
               THEN [r EXCEPT !.botId = REMOTE_BOT, !.pc = "dbGet"]
               ELSE SetupThrew(r, BOT_INFO_ERROR)]
  /\ UNCHANGED <<TELEGRAM_BOT_TOKEN, TELEGRAM_BOT_USERNAME, updates, db, db0>>

\* await dbGetUserTelegramId({ userId }) completes: lines 76-81, 161-165
DbGet(p) ==
  /\ req[p].pc = "dbGet"
  /\ LET r == Log(req[p], "dbGet")
         g == [r EXCEPT !.dbUsername = dbGetUserTelegramId(db, r.userId)]
     IN  \/ \E e \in CollaboratorErrors :
              req' = [req EXCEPT ![p] =
                IF r.op = "lookup" THEN LookupThrew(r, e) ELSE SetupThrew(r, e)]
         \/ req' = [req EXCEPT ![p] =
              IF g.op = "lookup"
                THEN [g EXCEPT !.pc = "done", !.res =
                        IF Falsy(g.dbUsername)
                          THEN Value(FALSE, MISSING_USERNAME_ERROR, Undef,
                                     NoHandle, Undef, Undef)
                          ELSE Value(TRUE, Undef, Undef, g.dbUsername, Undef,
                                     Undef)]
                ELSE IF Falsy(finalUsername(g))
                       THEN SetupReturned(g, Value(FALSE, MISSING_USERNAME_ERROR,
                                                   g.userId, NoHandle, Undef,
                                                   g.botId))
                       ELSE [g EXCEPT !.pc = "getUpdates"]]
  /\ UNCHANGED <<TELEGRAM_BOT_TOKEN, TELEGRAM_BOT_USERNAME, updates, db, db0>>

\* await getChatIdByUsername(sanitizedUsername) completes: lines 43-53, 84-94
GetUpdates(p) ==
  /\ req[p].pc = "getUpdates"
  /\ \E outcome \in FetchOutcomes :
       LET r == Log(req[p], "getUpdates")
           c == [r EXCEPT !.chatId =
                   getChatIdByUsername(updates, sanitizedUsername(r))]
       IN  req' = [req EXCEPT ![p] =
             IF outcome # "ok"
               THEN SetupThrew(r, BOT_UPDATES_ERROR)
             ELSE IF NotStarted(c.chatId)
               THEN SetupReturned(c, Value(FALSE, BOT_NOT_STARTED_ERROR,
                                           c.userId, NoHandle, Undef, c.botId))
             ELSE IF NeedsUpdate(c)
               THEN [c EXCEPT !.pc = "dbUpdate"]
             ELSE SetupReturned(c, SetupSuccess(c))]
  /\ UNCHANGED <<TELEGRAM_BOT_TOKEN, TELEGRAM_BOT_USERNAME, updates, db, db0>>

\* await dbUpdateUserTelegramId({ userId, telegramId }) completes: lines 91-94
DbUpdate(p) ==
  /\ req[p].pc = "dbUpdate"
  /\ LET a == UpdateArgs(req[p])
         w == [userId |-> a.userId, telegramId |-> a.telegramId,
               stored |-> dbGetUserTelegramId(db, a.userId)]
         r == [Log(req[p], "dbUpdate") EXCEPT !.wrote = Append(@, w)]
     IN  \/ /\ \E e \in CollaboratorErrors :
                 req' = [req EXCEPT ![p] = SetupThrew(r, e)]
            /\ db' = db
         \/ /\ db' = [db EXCEPT ![w.userId] = w.telegramId]
            /\ req' = [req EXCEPT ![p] = SetupReturned(r, SetupSuccess(r))]
  /\ UNCHANGED <<TELEGRAM_BOT_TOKEN, TELEGRAM_BOT_USERNAME, updates, db0>>

\* await sendTelegramMessage(setup.chatId, text) completes: lines 55-62, 143-144
SendMessage(p) ==
  /\ req[p].pc = "sendMessage"
  /\ \E outcome \in FetchOutcomes :
       LET m == MessageBody(req[p].setup.chatId, req[p].text)
           r == [Log(req[p], "sendMessage") EXCEPT
                   !.sent = Append(@, [body |-> m, ok |-> outcome = "ok"])]
       IN  req' = [req EXCEPT ![p] =
             IF outcome = "ok"
               THEN [r EXCEPT !.pc = "done",
                       !.res = Value(TRUE, Undef, Undef, NoHandle, Undef,
                                     r.setup.botId)]
               ELSE [r EXCEPT !.pc = "done",
                       !.res = Caught(SEND_MESSAGE_ERROR,
                                      NOTIFY_DEFAULT_ERROR)]]
  /\ UNCHANGED <<TELEGRAM_BOT_TOKEN, TELEGRAM_BOT_USERNAME, updates, db, db0>>

\* the caller has taken the result; the slot is free for the next request
Return(p) ==
  /\ req[p].pc = "done"
  /\ req' = [req EXCEPT ![p] = IdleReq]
  /\ UNCHANGED <<TELEGRAM_BOT_TOKEN, TELEGRAM_BOT_USERNAME, updates, db, db0>>

Step(p) ==
  \/ VerifyUser(p)
  \/ GetMe(p)
  \/ DbGet(p)
  \/ GetUpdates(p)
  \/ DbUpdate(p)
  \/ SendMessage(p)
  \/ Return(p)

\* requests served one at a time, every input
Next ==
  \/ InvokeAny("p1", Ops, Users \cup {Undef}, Overrides, Texts, 1)
  \/ \E p \in Procs : Step(p)
Spec == Init /\ [][Next]_vars

\* requests of signed-in users interleaved at every await
InitConc ==
  /\ TELEGRAM_BOT_TOKEN = TRUE
  /\ TELEGRAM_BOT_USERNAME = Undef
  /\ updates \in {u \in UpdateLists : Len(u) <= 1}
  /\ db \in [Users -> {NoHandle, <<"a", "a">>}]
  /\ db0 = db
  /\ req = [p \in Procs |-> IdleReq]
NextConc ==
  \E p \in Procs :
    \/ InvokeAny(p, ConcOps, Users, ConcOverrides, ConcTexts, Cardinality(Procs))
    \/ Step(p)
SpecConc == InitConc /\ [][NextConc]_vars

\* ----------------------------------------------------------- observations
SetupOps == {"checkSetup", "verify", "notify"}
Done(r) == r.pc = "done"
Called(r, fn) == \E i \in 1..Len(r.calls) : r.calls[i] = fn
CountCalls(r, fn) == Cardinality({i \in 1..Len(r.calls) : r.calls[i] = fn})
LastCall(r) == IF r.calls = <<>> THEN Undef ELSE r.calls[Len(r.calls)]
NoNetwork(r) == \A fn \in {"getMe", "getUpdates", "sendMessage"} : ~Called(r, fn)
NoPersistence(r) == ~Called(r, "dbGet") /\ ~Called(r, "dbUpdate") /\ r.wrote = <<>>
\* the exception that ended the operation's checkSetup or lookup, if any
Raised(r) == r.setup.kind = "thrown" \/ r.res.kind = "thrown"
\* the awaited call fn returned normally in r
Returned(r, fn) == Called(r, fn) /\ ~(Raised(r) /\ LastCall(r) = fn)
Matches(h) == {i \in 1..Len(updates) : updates[i].username = h}
FirstMatch(h) == updates[CHOOSE i \in Matches(h) : \A j \in Matches(h) : i <= j].chat
Clean(h) == h # NoHandle /\ h # <<>> /\ \A i \in 1..Len(h) : h[i] # "@"
Failure(res, error) == res.kind = "value" /\ ~res.success /\ res.error = error

\* ------------------------------------------------------------------- C1
\* C1 as stated: when the AuthProvider yields no user id, every public
\* operation returns UNAUTHORIZED, with no network call and no persistence
\* call, whatever the configuration.
C1_UnauthorizedAlways ==
  \A p \in Procs :
    LET r == req[p]
    IN  (Done(r) /\ r.session = Undef /\ ~Raised(r)) =>
          /\ Failure(r.res, UNAUTHORIZED)
          /\ NoNetwork(r)
          /\ NoPersistence(r)

\* C1 amended: an unauthenticated caller never causes a network or a
\* persistence call, and gets UNAUTHORIZED from every public operation,
\* except that notify without a configured credential answers "Telegram
\* bot token not set" before it asks the AuthProvider.
C1_Unauthenticated ==
  \A p \in Procs :
    LET r == req[p]
    IN  r.session = Undef =>
          /\ NoNetwork(r)
          /\ NoPersistence(r)
          /\ r.sent = <<>>
          /\ (Done(r) /\ ~Raised(r)) =>
               IF r.op = "notify" /\ ~TELEGRAM_BOT_TOKEN
                 THEN Failure(r.res, TOKEN_NOT_SET_ERROR) /\ r.calls = <<>>
                 ELSE /\ Failure(r.res, UNAUTHORIZED)
                      /\ r.calls = <<"verifyUser">>
                      /\ r.res.botId = Undef

C1_Witness ==
  \E p \in Procs :
    /\ Done(req[p]) /\ req[p].session = Undef /\ req[p].op = "notify"
    /\ ~Falsy(req[p].username)
    /\ Failure(req[p].res, UNAUTHORIZED)

\* ------------------------------------------------------------------- C2
\* C2: a failure of a collaborator during the verify action, notify or
\* lookupHandle is turned into a result with success = false and an error
\* message; none of the three ends by throwing.
C2_NeverThrows ==
  \A p \in Procs :
    LET r == req[p]
    IN  (Done(r) /\ r.op \in {"verify", "notify", "lookup"}) =>
          /\ r.res.kind = "value"
          /\ Raised(r) => (~r.res.success /\ r.res.error # Undef)

\* ------------------------------------------------------------------- C3
\* C3: when the update list holds no message whose sender username is the
\* normalized target handle, checkSetup returns BotNotStarted with userId
\* and botId, does not call set, and leaves the user's stored handle as it
\* found it (requests served one at a time).
C3_BotNotStarted ==
  \A p \in Procs :
    LET r == req[p]
        target == replaceAll(IF Falsy(r.username) THEN r.dbUsername
                             ELSE r.username, "@")
    IN  (r.op \in SetupOps /\ Returned(r, "getUpdates") /\ Matches(target) = {}) =>
          /\ r.setup = Value(FALSE, BOT_NOT_STARTED_ERROR, r.session, NoHandle,
                             Undef, r.botId)
          /\ r.session \in Users
          /\ r.botId \in {CONFIGURED_BOT, REMOTE_BOT}
          /\ ~Called(r, "dbUpdate")
          /\ r.wrote = <<>>
          /\ db[r.session] = r.dbUsername

C3_Witness ==
  \E p \in Procs :
    /\ Done(req[p]) /\ req[p].op = "checkSetup"
    /\ req[p].username = <<"a">>
    /\ Matches(<<"a">>) = {} /\ updates # <<>>
    /\ Failure(req[p].res, BOT_NOT_STARTED_ERROR)

\* ------------------------------------------------------------------- C4
\* C4 as stated: whenever checkSetup calls set, the value written differs
\* from the value stored for that user at the moment of the write, under
\* any interleaving of invocations.
C4_WriteDiffersFromStored ==
  \A p \in Procs :
    \A i \in 1..Len(req[p].wrote) :
      req[p].wrote[i].telegramId # req[p].wrote[i].stored

\* C4 amended: whenever checkSetup calls set, the value written differs
\* from the value that invocation read with get; and when the value it read
\* equals the normalized handle, it does not call set.
C4_WriteDiffersFromRead ==
  \A p \in Procs :
    LET r == req[p]
        target == replaceAll(IF Falsy(r.username) THEN r.dbUsername
                             ELSE r.username, "@")
    IN  /\ \A i \in 1..Len(r.wrote) :
             /\ Returned(r, "dbGet")
             /\ r.wrote[i].telegramId # r.dbUsername
             /\ r.wrote[i].telegramId = target
        /\ (r.op \in SetupOps /\ Returned(r, "dbGet") /\ r.dbUsername = target) =>
             (r.wrote = <<>> /\ ~Called(r, "dbUpdate") /\ r.pc # "dbUpdate")

C4_Witness ==
  \E p \in Procs :
    /\ Done(req[p]) /\ req[p].setup.success
    /\ req[p].dbUsername = <<"a", "a">>
    /\ Len(req[p].wrote) = 1
    /\ req[p].wrote[1].telegramId = <<"a">>
    /\ db[req[p].userId] = <<"a">>

\* ------------------------------------------------------------------- C5
\* what checkSetup returns for the stored or supplied handle h of user u,
\* resolved bot b, when no collaborator fails
SetupFor(h, u, b) ==
  IF Matches(h) = {}
    THEN Value(FALSE, BOT_NOT_STARTED_ERROR, u, NoHandle, Undef, b)
    ELSE Value(TRUE, Undef, u, h, FirstMatch(h), b)

\* C5: for a Telegram handle h, the overrides "@" + h and h are both
\* normalized to h: a set call writes h, a success reports h and leaves h
\* stored.  Once h is stored, checkSetup with either input calls no set,
\* leaves h stored and returns the result that depends on h and the update
\* list only (requests served one at a time).
C5_AtPrefixNormalized ==
  \A p \in Procs :
    LET r == req[p]
    IN  \A h \in TelegramNames :
          (r.op \in SetupOps /\ r.username \in {h, <<"@">> \o h}) =>
            /\ \A i \in 1..Len(r.wrote) : r.wrote[i].telegramId = h
            /\ (r.setup.kind = "value" /\ r.setup.success) =>
                 (r.setup.username = h /\ db[r.userId] = h)
            /\ (Returned(r, "dbGet") /\ r.dbUsername = h) =>
                 /\ r.wrote = <<>>
                 /\ ~Called(r, "dbUpdate")
                 /\ db[r.userId] = h
                 /\ (Done(r) /\ ~Raised(r)) => r.setup = SetupFor(h, r.userId, r.botId)

C5_Witness ==
  \E p \in Procs :
    /\ Done(req[p]) /\ req[p].op = "checkSetup"
    /\ req[p].username = <<"@", "a">>
    /\ req[p].dbUsername = <<"a">>
    /\ req[p].res.success /\ req[p].res.username = <<"a">>
    /\ req[p].wrote = <<>>

\* ------------------------------------------------------------------- C6
\* C6: notify without a configured credential returns the configuration
\* error at once: no AuthProvider call, no persistence get or set, no
\* gateway request, whatever the override, the text and the session are.
C6_ConfigError ==
  \A p \in Procs :
    LET r == req[p]
    IN  (r.op = "notify" /\ ~TELEGRAM_BOT_TOKEN) =>
          /\ Done(r)
          /\ r.res = Value(FALSE, TOKEN_NOT_SET_ERROR, Undef, NoHandle, Undef, Undef)
          /\ r.setup.kind = "none"
          /\ r.calls = <<>> /\ r.sent = <<>> /\ r.wrote = <<>>

C6_Witness ==
  \E p \in Procs :
    /\ req[p].op = "notify" /\ ~TELEGRAM_BOT_TOKEN
    /\ req[p].session \in Users /\ ~Falsy(req[p].username)
    /\ db[req[p].session] = <<"a">> /\ Matches(<<"a">>) # {}
    /\ Failure(req[p].res, TOKEN_NOT_SET_ERROR)

\* ------------------------------------------------------------------- C7
\* the result MissingHandle for r
IsMissingHandle(r) ==
  /\ r.setup = Value(FALSE, MISSING_USERNAME_ERROR, r.session, NoHandle, Undef,
                     r.botId)
  /\ r.botId \in {CONFIGURED_BOT, REMOTE_BOT}
  /\ ~Called(r, "getUpdates") /\ ~Called(r, "dbUpdate") /\ r.wrote = <<>>

\* C7 as stated: with the user authenticated and the bot resolved,
\* effectiveHandle is the override whenever one is supplied, an empty one
\* included, and the stored handle only when none is; checkSetup returns
\* MissingHandle exactly when effectiveHandle is empty or absent.
C7_OverrideNullish ==
  \A p \in Procs :
    LET r == req[p]
        effectiveHandle == IF r.username # NoHandle THEN r.username
                           ELSE r.dbUsername
    IN  (r.op \in SetupOps /\ Returned(r, "dbGet")) =>
          /\ Falsy(effectiveHandle) <=> IsMissingHandle(r)
          /\ (r.setup.kind = "value" /\ r.setup.success) =>
               r.setup.username = replaceAll(effectiveHandle, "@")

\* C7 amended: effectiveHandle is the override when a non-empty one is
\* supplied, and the stored handle when the override is absent or empty;
\* checkSetup returns MissingHandle (userId, botId, no scan, no set) exactly
\* when effectiveHandle is empty or absent.
C7_OverrideOrStored ==
  \A p \in Procs :
    LET r == req[p]
        effectiveHandle == IF r.username # NoHandle /\ r.username # <<>>
                             THEN r.username
                             ELSE r.dbUsername
    IN  (r.op \in SetupOps /\ Returned(r, "dbGet")) =>
          /\ Falsy(effectiveHandle) <=> IsMissingHandle(r)
          /\ (r.setup.kind = "value" /\ r.setup.success) =>
               r.setup.username = replaceAll(effectiveHandle, "@")

C7_Witness ==
  \E p \in Procs :
    /\ Done(req[p]) /\ req[p].op = "checkSetup"
    /\ req[p].username = NoHandle /\ req[p].dbUsername = NoHandle
    /\ IsMissingHandle(req[p])

\* ------------------------------------------------------------------- C8
\* C8: notify sends only after its checkSetup succeeded, once, with
\* chat_id the chat checkSetup resolved and text the supplied text; it
\* returns success with the botId only if that send succeeded, and forwards
\* checkSetup's error without sending when checkSetup failed.  No other
\* operation sends.
C8_SendAfterSetup ==
  \A p \in Procs :
    LET r == req[p]
    IN  /\ Len(r.sent) <= 1
        /\ CountCalls(r, "sendMessage") = Len(r.sent)
        /\ r.sent # <<>> =>
             /\ r.op = "notify"
             /\ r.setup.kind = "value" /\ r.setup.success
             /\ r.sent[1].body = [chat_id |-> r.chatId, text |-> r.text]
             /\ r.text \in Texts
             /\ r.chatId = FirstMatch(r.setup.username)
             /\ LastCall(r) = "sendMessage"
        /\ (Done(r) /\ r.op = "notify" /\ r.res.success) =>
             /\ r.sent # <<>> /\ r.sent[1].ok
             /\ r.res.botId = r.botId /\ r.botId # Undef
        /\ (Done(r) /\ r.op = "notify" /\ r.sent # <<>> /\ ~r.sent[1].ok) =>
             Failure(r.res, SEND_MESSAGE_ERROR)
        /\ (Done(r) /\ r.op = "notify" /\ r.setup.kind = "value"
              /\ ~r.setup.success) =>
             (r.sent = <<>> /\ Failure(r.res, r.setup.error))

C8_Witness ==
  \E p \in Procs :
    /\ Done(req[p]) /\ req[p].op = "notify" /\ req[p].res.success
    /\ req[p].sent = <<[body |-> [chat_id |-> "c2", text |-> "bye"], ok |-> TRUE]>>

\* ------------------------------------------------------------------- C9
\* C9 as stated: every failure the verify action or notify returns after
\* the bot identity was resolved carries that botId, the failures raised
\* after the resolution included.
C9_BotIdOnEveryFailure ==
  \A p \in Procs :
    LET r == req[p]
    IN  (Done(r) /\ r.op \in {"verify", "notify"} /\ ~r.res.success
           /\ r.botId # Undef) =>
          r.res.botId = r.botId

\* C9 amended: a failure that checkSetup returns (MissingHandle,
\* BotNotStarted) is forwarded by the verify action and by notify with the
\* resolved botId; a failure raised as an exception (updates scan,
\* persistence get or set, send) is reported with its message and no botId.
C9_BotIdOnReturnedFailure ==
  \A p \in Procs :
    LET r == req[p]
    IN  (Done(r) /\ r.op \in {"verify", "notify"} /\ ~r.res.success) =>
          /\ r.res.kind = "value" /\ r.res.error # Undef
          /\ (r.setup.kind = "value" /\ ~r.setup.success) =>
               /\ r.res.botId = r.botId
               /\ r.res.error = r.setup.error
               /\ r.setup.error \in {MISSING_USERNAME_ERROR, BOT_NOT_STARTED_ERROR}
                    => r.botId \in {CONFIGURED_BOT, REMOTE_BOT}
          /\ (r.setup.kind = "thrown" \/ r.sent # <<>>) => r.res.botId = Undef

C9_Witness ==
  \E p \in Procs :
    /\ Done(req[p]) /\ req[p].op = "notify"
    /\ Failure(req[p].res, BOT_NOT_STARTED_ERROR)
    /\ req[p].res.botId = REMOTE_BOT

\* ------------------------------------------------------------------ C10
\* the stored handles are the initial ones or clean names found in the
\* update list; an invocation calls set at most once, after a scan that
\* matched the value, for its own authenticated user; lookupHandle never
\* calls set
C10_Stored ==
  /\ \A u \in Users :
       db[u] = db0[u] \/ (Clean(db[u]) /\ Matches(db[u]) # {})
  /\ \A p \in Procs :
       LET r == req[p]
       IN  /\ Len(r.wrote) <= 1
           /\ CountCalls(r, "dbUpdate") = Len(r.wrote)
           /\ r.op = "lookup" => (r.wrote = <<>> /\ r.pc # "dbUpdate")
           /\ \A i \in 1..Len(r.wrote) :
                /\ r.op \in SetupOps
                /\ r.session \in Users /\ r.wrote[i].userId = r.session
                /\ Returned(r, "getUpdates")
                /\ Clean(r.wrote[i].telegramId)
                /\ Matches(r.wrote[i].telegramId) # {}

\* a step changes the stored handle of one user at most, and only as the
\* set call of an invocation of that user, to the value that call wrote
C10_Write ==
  \A u \in Users :
    db'[u] # db[u] =>
      \E p \in Procs :
        /\ req[p].pc = "dbUpdate" /\ req[p].session = u
        /\ req'[p].wrote = <<[userId |-> u, telegramId |-> db'[u], stored |-> db[u]]>>
        /\ \A v \in Users \ {u} : db'[v] = db[v]

\* C10: after any interleaving of public operations by any users, each
\* stored handle is its initial value or a non-empty value without "@"
\* written by a checkSetup invocation of that same authenticated user after
\* its scan matched exactly that value; each invocation calls set at most
\* once and lookupHandle never does.
C10_StoredHandles == []C10_Stored /\ [][C10_Write]_vars

C10_Witness ==
  \E u \in Users : db[u] # db0[u] /\ db0[u] # NoHandle

====
